---- MODULE Spec2Model ----
(***************************************************************************)
(* queuectl: a job queue kept in three SQLite tables (jobs, workers,       *)
(* config) and worked by several worker processes.  Each statement the     *)
(* program sends to the store is one atomic step of this model; the steps  *)
(* of different processes interleave freely.  Python's sqlite3 opens a     *)
(* transaction only at the first data-modifying statement, so the SELECT   *)
(* of pick_next_job is a step of its own, before the transaction of the    *)
(* guarded UPDATE.                                                         *)
(*                                                                         *)
(* Time is counted in ticks, TicksPerSec of them to the second, so that    *)
(* the difference between a timestamp cut to the second (now_iso) and one  *)
(* that keeps its fraction (datetime.now().isoformat()) is visible.        *)
(***************************************************************************)
EXTENDS Integers, Sequences, FiniteSets, TLC

VARIABLES
    clock,      \* the wall clock, in ticks
    config,     \* the config table: key -> value (parsed)
    jobs,       \* the jobs table: id -> row
    wk,         \* each worker process: its position in process_job and its locals
    execs,      \* history: executions of each job since enqueue or the last dlq_retry
    failedAt,   \* history: while a job is 'failed', the tick its failure was committed at
    completions,\* history: transitions of each job to 'completed'
    lost,       \* history: another worker claimed the job this worker has selected
    cli,        \* what the last command of the operator reported
    workers,    \* the workers table: id -> row
    stop,       \* the stop_workers call in progress, if any
    shutdown_event, \* each worker's shutdown event: set or not
    lastSet,    \* history: the value set_config last stored for each key
    sup,        \* the supervisor (`worker start`): how far it has started each worker
    beat        \* each worker's heartbeat thread: the tick its next beat is due

vars == <<clock, config, jobs, wk, execs, failedAt, completions, lost,
          cli, workers, stop, shutdown_event, lastSet, sup, beat>>

\* what no step of enqueueing and job processing writes
others == <<workers, stop, shutdown_event, lastSet, sup, beat>>

----------------------------------------------------------------------------
\* Bounds of the model.
MaxTime == 5
TicksPerSec == 2
MaxRetriesIn == 1
CliMaxTime == 1

JobIds == {"j1", "j2"}
Workers == {"w1", "w2"}
Commands == {"cat flag"}
RunAtSecs == {1}
Priorities == {0}

NULL == "NULL"

----------------------------------------------------------------------------
\* Timestamps.  A stored timestamp string is modelled by what decides its
\* order as a string: the second it names (the fixed-width prefix
\* YYYY-MM-DDTHH:MM:SS), the fraction that follows (sub = 0: none), and the
\* form it was written in.

Stamp(sec, sub, fmt) == [sec |-> sec, sub |-> sub, fmt |-> fmt]

\* now_iso(): the clock cut to the second, as YYYY-MM-DDTHH:MM:SSZ
now_iso == Stamp(clock \div TicksPerSec, 0, "iso")

\* datetime.isoformat().replace('+00:00','Z') of the instant t: the fraction
\* is written, as .ffffff, exactly when it is not zero
IsoFormatZ(t) == Stamp(t \div TicksPerSec, t % TicksPerSec, "iso")

\* sqlite3's default adapter of a datetime bound as a parameter:
\* "YYYY-MM-DD HH:MM:SS.ffffff+00:00"
AdaptDatetime(t) == Stamp(t \div TicksPerSec, t % TicksPerSec, "adapter")

\* the instant a timestamp names
Instant(ts) == ts.sec * TicksPerSec + ts.sub

\* The rank of what follows the seconds: "Z" sorts after ".ffffffZ" ('.' < 'Z').
SuffixRank(ts) == IF ts.sub = 0 THEN TicksPerSec ELSE ts.sub

\* a <= b as SQLite compares two TEXT values of the "iso" form
StrLeq(a, b) ==
    \/ a.sec < b.sec
    \/ a.sec = b.sec /\ SuffixRank(a) <= SuffixRank(b)

StrLess(a, b) == StrLeq(a, b) /\ a # b

\* a timestamp column that is NULL
NoStamp == Stamp(0, 0, NULL)

----------------------------------------------------------------------------
\* Configuration.

\* The values are the numbers their strings name; poll_interval, no whole
\* number, stays the string it is.
DEFAULTS == [max_retries |-> 3, backoff_base |-> 2, poll_interval |-> "0.5",
             job_timeout |-> 120]

\* (a slip: INSERT OR REPLACE for ON CONFLICT DO NOTHING)
SeedDefaultsReplaces(cfg) ==
    [k \in DOMAIN cfg \cup DOMAIN DEFAULTS |->
        IF k \in DOMAIN DEFAULTS THEN DEFAULTS[k] ELSE cfg[k]]

\* init_db's INSERT INTO config ... ON CONFLICT (key) DO NOTHING, for each
\* default: the table cfg after it
SeedDefaults(cfg) ==
    [k \in DOMAIN cfg \cup DOMAIN DEFAULTS |->
        IF k \in DOMAIN cfg THEN cfg[k] ELSE DEFAULTS[k]]

\* {**DEFAULTS, **rows}
get_config ==
    [k \in DOMAIN DEFAULTS \cup DOMAIN config |->
        IF k \in DOMAIN config THEN config[k] ELSE DEFAULTS[k]]

RECURSIVE Pow(_, _)
Pow(b, n) == IF n = 0 THEN 1 ELSE b * Pow(b, n - 1)

\* (a slip: the operands of ** exchanged)
BackoffOperandsSwapped(attempts, base) == Pow(attempts, base)

\* calculate_backoff_delay: base ** attempts seconds
calculate_backoff_delay(attempts, base) == Pow(base, attempts)

----------------------------------------------------------------------------
\* Texts.  A text is modelled by its length and the character it is made of;
\* a column that holds no text is NULL.

Text(ch, len) == [null |-> FALSE, ch |-> ch, len |-> len]

NullText == [null |-> TRUE, ch |-> NULL, len |-> 0]

\* output[:10000]
OutputLimit == 10000

\* (a slip: the output stored whole)
SliceKeepsAll(text, n) == text

\* text[:n]
Slice(text, n) == IF text.len > n THEN [text EXCEPT !.len = n] ELSE text

----------------------------------------------------------------------------
\* What is kept of a command of the operator: the message it exits with
\* (sys.exit) and the id or key the message names; of a command that only
\* reads, its name; of a command that writes and prints its confirmation,
\* nothing (Quiet).

Report(msg, arg) == [msg |-> msg, arg |-> arg]

Quiet == Report(NULL, NULL)

----------------------------------------------------------------------------
\* The worker's locals, and their values while they hold nothing.

\* (a slip: the configuration read again at every turn of the loop)
IdleWorkerRereads(poll, base, timeout) ==
    [pc |-> "pick", poll |-> get_config.poll_interval,
     base |-> get_config.backoff_base, timeout |-> get_config.job_timeout,
     now |-> Stamp(0, 0, "iso"), job_id |-> NULL,
     attempts |-> 0, max_retries |-> 0, success |-> FALSE, error |-> NULL,
     output |-> NullText]

IdleWorker(poll, base, timeout) ==
    [pc |-> "pick", poll |-> poll, base |-> base, timeout |-> timeout, now |-> Stamp(0, 0, "iso"), job_id |-> NULL,
     attempts |-> 0, max_retries |-> 0, success |-> FALSE, error |-> NULL,
     output |-> NullText]

\* INSERT INTO workers(id, pid, status, started_at, heartbeat_at): the row
\* of a worker being started, stopped_at NULL
WorkerRow(pid, now) ==
    [pid |-> pid, status |-> "starting", started_at |-> now, heartbeat_at |-> now,
     stopped_at |-> NoStamp]

\* UPDATE workers SET pid = ?, status = 'running' WHERE id = ?
RunningRow(row, pid) == [row EXCEPT !.pid = pid, !.status = "running"]

\* no stop_workers is under way
NoStop == [pc |-> "idle", at |-> 0, targets |-> {}, running |-> {}]

\* The state after init_db and `worker start`: the tables are created, the
\* defaults seeded, and each worker is registered, spawned and marked
\* running; no worker has read the configuration yet.
Init ==
    /\ clock = 0
    /\ config = SeedDefaults(<< >>)
    /\ cli = Quiet
    /\ workers = [w \in Workers |-> RunningRow(WorkerRow("supervisor", now_iso), w)]
    /\ stop = NoStop
    /\ sup = [up |-> TRUE, step |-> [w \in Workers |-> "listed"]]
    /\ beat = [w \in Workers |-> 0]
    /\ shutdown_event = [w \in Workers |-> FALSE]
    /\ lastSet = << >>
    /\ jobs = << >>
    /\ wk = [w \in Workers |-> [IdleWorker(NULL, 0, 0) EXCEPT !.pc = "start"]]
    /\ execs = [j \in JobIds |-> 0]
    /\ failedAt = [j \in JobIds |-> 0]
    /\ completions = [j \in JobIds |-> 0]
    /\ lost = [w \in Workers |-> FALSE]

----------------------------------------------------------------------------
\* enqueue_job.

\* job.get(key, default) on the parsed JSON object
JsonGet(job, key, default) == IF key \in DOMAIN job THEN job[key] ELSE default

\* The JSON objects submitted: command, id, and optionally max_retries,
\* run_at and priority.
JobInputs ==
    [id : JobIds, command : Commands, max_retries : 0..MaxRetriesIn]
    \cup [id : JobIds, command : Commands, max_retries : {0},
          run_at : {Stamp(s, 0, "iso") : s \in RunAtSecs}]
    \cup [id : JobIds, command : Commands, max_retries : 0..MaxRetriesIn,
          priority : Priorities]

\* the row enqueue_job builds
NewRow(job) ==
    LET created == now_iso IN
    [command     |-> job.command,
     state       |-> "pending",
     attempts    |-> 0,
     max_retries |-> JsonGet(job, "max_retries", get_config.max_retries),
     created_at  |-> created,
     updated_at  |-> created,
     due_at      |-> JsonGet(job, "run_at", created),
     last_error  |-> NULL,
     output      |-> NullText,
     priority    |-> JsonGet(job, "priority", 0),
     picked_by   |-> NULL]

\* (a slip: INSERT OR REPLACE, which the primary key does not stop)
PrimaryKeyIgnored(id) == TRUE

\* id TEXT PRIMARY KEY: the INSERT goes through when no row has the id
PrimaryKeyFree(id) == id \notin DOMAIN jobs

\* f"Job with id '{job_id}' already exists."
AlreadyExists(id) == Report("Job with id already exists.", id)

\* INSERT INTO jobs, when the primary key lets it through.
Enqueue(job) ==
    /\ PrimaryKeyFree(job.id)
    /\ jobs' = [j \in DOMAIN jobs \cup {job.id} |->
                   IF j = job.id THEN NewRow(job) ELSE jobs[j]]
    /\ cli' = Quiet
    /\ UNCHANGED <<clock, config, wk, execs, failedAt, completions, lost, others>>

\* INSERT INTO jobs, when the primary key rejects it (IntegrityError):
\* enqueue_job exits with the message.
EnqueueDuplicate(job) ==
    /\ ~PrimaryKeyFree(job.id)
    /\ cli' = AlreadyExists(job.id)
    /\ UNCHANGED <<clock, config, jobs, wk, execs, failedAt, completions, lost, others>>

----------------------------------------------------------------------------
\* process_job: a worker reads the configuration once, before its loop.
WorkerStart(w) ==
    /\ wk[w].pc = "start"
    /\ wk' = [wk EXCEPT ![w] = IdleWorker(get_config.poll_interval, get_config.backoff_base,
                                      get_config.job_timeout)]
    /\ UNCHANGED <<clock, config, jobs, execs, failedAt, completions, lost, cli, others>>

----------------------------------------------------------------------------
\* pick_next_job.

\* (a slip: 'failed' left out of the states of the SELECT)
EligiblePendingOnly(now) ==
    {j \in DOMAIN jobs : /\ jobs[j].state \in {"pending"}
                         /\ StrLeq(jobs[j].due_at, now)}

\* WHERE state IN ('pending','failed') AND due_at <= now
Eligible(now) ==
    {j \in DOMAIN jobs : /\ jobs[j].state \in {"pending", "failed"}
                         /\ StrLeq(jobs[j].due_at, now)}

\* ORDER BY priority DESC, due_at ASC, created_at ASC: row a sorts before b
OrderBefore(a, b) ==
    \/ a.priority > b.priority
    \/ /\ a.priority = b.priority
       /\ \/ StrLess(a.due_at, b.due_at)
          \/ a.due_at = b.due_at /\ StrLess(a.created_at, b.created_at)

\* LIMIT 1: a first row of the order (rows that tie come in an order SQL
\* leaves open)
FirstRows(elig) == {j \in elig : \A k \in elig : ~OrderBefore(jobs[k], jobs[j])}

\* The SELECT.  With no eligible row pick_next_job returns None and the
\* worker sleeps poll_interval and starts its loop again.
Select(w) ==
    /\ wk[w].pc = "pick"
    /\ LET now == now_iso
           elig == Eligible(now) IN
       IF elig = {}
       THEN UNCHANGED <<wk, lost>>
       ELSE \E j \in FirstRows(elig) :
              /\ wk' = [wk EXCEPT ![w].pc = "claim", ![w].now = now, ![w].job_id = j]
              /\ lost' = [lost EXCEPT ![w] = FALSE]
    /\ UNCHANGED <<clock, config, jobs, execs, failedAt, completions, cli, others>>

\* (a slip: the claiming UPDATE guarded by the id alone)
ClaimGuardIdOnly(row) == TRUE

\* WHERE id = ? AND state IN ('pending','failed') of the claiming UPDATE
ClaimGuard(row) == row.state \in {"pending", "failed"}

\* (a slip: the claim starts the attempts count again)
ClaimedRowResetsAttempts(row, w, now) ==
    [row EXCEPT !.state = "processing", !.picked_by = w, !.updated_at = now,
                !.attempts = 0]

\* SET state = 'processing', picked_by = ?, updated_at = ?
ClaimedRow(row, w, now) ==
    [row EXCEPT !.state = "processing", !.picked_by = w, !.updated_at = now]

\* The claiming UPDATE ... RETURNING.  With a row returned the worker goes on
\* to execute_job with the attempts and max_retries the row holds; with none
\* pick_next_job returns None.
ClaimUpdate(w) ==
    /\ wk[w].pc = "claim"
    /\ LET j == wk[w].job_id IN
       IF ClaimGuard(jobs[j])
       THEN /\ jobs' = [jobs EXCEPT ![j] = ClaimedRow(jobs[j], w, wk[w].now)]
            /\ wk' = [wk EXCEPT ![w].pc = "run",
                                ![w].attempts = jobs[j].attempts,
                                ![w].max_retries = jobs[j].max_retries]
            /\ execs' = [execs EXCEPT ![j] = @ + 1]
            /\ failedAt' = [failedAt EXCEPT ![j] = 0]
            /\ lost' = [v \in Workers |->
                          IF v # w /\ wk[v].pc = "claim" /\ wk[v].job_id = j
                          THEN TRUE ELSE IF v = w THEN FALSE ELSE lost[v]]
       ELSE /\ wk' = [wk EXCEPT ![w] = IdleWorker(wk[w].poll, wk[w].base, wk[w].timeout)]
            /\ lost' = [lost EXCEPT ![w] = FALSE]
            /\ UNCHANGED <<jobs, execs, failedAt>>
    /\ UNCHANGED <<clock, config, completions, cli, others>>

----------------------------------------------------------------------------
\* execute_job: (success, error) of running the command under the timeout.
\* What a shell command does is the environment's: it exits with 0 or with
\* another code.  A timeout and an exception of subprocess.run are failures
\* too, with another error text; the one failure here stands for them.
\* output is proc.stdout + proc.stderr: of "cat flag", the file's five
\* characters, or cat's complaint that there is no such file; of
\* "seq 1 3000", the 13893 characters of its 3000 lines, or the shell's
\* complaint that there is no seq.
ExecResults(command, timeout) ==
    IF command = "seq 1 3000"
    THEN {[success |-> TRUE,  error |-> NULL, output |-> Text("s", 13893)],
          [success |-> FALSE, error |-> "Command failed with exit code 127",
           output |-> Text("e", 27)]}
    ELSE {[success |-> TRUE,  error |-> NULL, output |-> Text("f", 5)],
          [success |-> FALSE, error |-> "Command failed with exit code 1",
           output |-> Text("e", 37)]}

\* The command ends, and the worker reads the clock (now = now_iso()).
Execute(w) ==
    /\ wk[w].pc = "run"
    /\ \E r \in ExecResults(jobs[wk[w].job_id].command, wk[w].timeout) :
         wk' = [wk EXCEPT ![w].pc = "commit", ![w].success = r.success,
                          ![w].error = r.error, ![w].output = r.output,
                          ![w].now = now_iso]
    /\ UNCHANGED <<clock, config, jobs, execs, failedAt, completions, lost, cli, others>>

\* new_attempts = attempts + 1
NewAttempts(attempts) == attempts + 1

\* (a slip: >= for >)
MoveToDlqOffByOne(new_attempts, max_retries) == new_attempts >= max_retries

\* if new_attempts > max_retries: move to the DLQ
MoveToDlq(new_attempts, max_retries) == new_attempts > max_retries

\* (a slip: picked_by = NULL left out of the success UPDATE)
CompletedRowKeepsPickedBy(row, now, output) ==
    [row EXCEPT !.state = "completed", !.attempts = @ + 1, !.updated_at = now,
                !.output = Slice(output, OutputLimit), !.last_error = NULL]

\* (a slip: last_error = NULL left out of the success UPDATE)
CompletedRowKeepsError(row, now, output) ==
    [row EXCEPT !.state = "completed", !.attempts = @ + 1, !.updated_at = now,
                !.output = Slice(output, OutputLimit), !.picked_by = NULL]

\* UPDATE ... SET state = 'completed', attempts = attempts + 1, ...
CompletedRow(row, now, output) ==
    [row EXCEPT !.state = "completed", !.attempts = @ + 1, !.updated_at = now,
                !.output = Slice(output, OutputLimit),
                !.last_error = NULL, !.picked_by = NULL]

\* (a slip: due_at = ? added to the UPDATE that moves a job to the DLQ)
DeadRowSetsDueAt(row, new_attempts, now, error) ==
    [row EXCEPT !.state = "dead", !.attempts = new_attempts, !.updated_at = now,
                !.due_at = now, !.last_error = error, !.picked_by = NULL]

\* UPDATE ... SET state = 'dead', attempts = ?, ...
DeadRow(row, new_attempts, now, error) ==
    [row EXCEPT !.state = "dead", !.attempts = new_attempts, !.updated_at = now,
                !.last_error = error, !.picked_by = NULL]

\* UPDATE ... SET state = 'failed', attempts = ?, due_at = ?, ...; now is the
\* datetime read in the retry branch, bound as it is for updated_at
FailedRow(row, new_attempts, t, delay_seconds, error) ==
    [row EXCEPT !.state = "failed", !.attempts = new_attempts,
                !.updated_at = AdaptDatetime(t),
                !.due_at = IsoFormatZ(t + delay_seconds * TicksPerSec),
                !.last_error = error, !.picked_by = NULL]

\* WHERE id = ? of the three UPDATEs that record a result: true of the row
\* that has the id, whatever its state
CommitGuard(row) == TRUE

\* The transaction that records the result: an UPDATE ... WHERE id = ?
Commit(w) ==
    /\ wk[w].pc = "commit"
    /\ LET j == wk[w].job_id
           new_attempts == NewAttempts(wk[w].attempts) IN
       IF ~CommitGuard(jobs[j])
       THEN UNCHANGED <<jobs, completions, failedAt>>
       ELSE IF wk[w].success
       THEN /\ jobs' = [jobs EXCEPT ![j] = CompletedRow(jobs[j], wk[w].now, wk[w].output)]
            /\ completions' = [completions EXCEPT ![j] = @ + 1]
            /\ UNCHANGED failedAt
       ELSE IF MoveToDlq(new_attempts, wk[w].max_retries)
       THEN /\ jobs' = [jobs EXCEPT ![j] =
                           DeadRow(jobs[j], new_attempts, wk[w].now, wk[w].error)]
            /\ UNCHANGED <<completions, failedAt>>
       ELSE /\ jobs' = [jobs EXCEPT ![j] =
                           FailedRow(jobs[j], new_attempts, clock,
                                     calculate_backoff_delay(new_attempts, wk[w].base),
                                     wk[w].error)]
            /\ failedAt' = [failedAt EXCEPT ![j] = clock]
            /\ UNCHANGED completions
    /\ wk' = [wk EXCEPT ![w] = IdleWorker(wk[w].poll, wk[w].base, wk[w].timeout)]
    /\ UNCHANGED <<clock, config, execs, lost, cli, others>>

----------------------------------------------------------------------------
\* dlq_retry.

\* (a slip: dlq_retry guarded by the id alone)
DlqGuardIdOnly(id) == id \in DOMAIN jobs

\* WHERE id = ? AND state = 'dead'
DlqGuard(id) == id \in DOMAIN jobs /\ jobs[id].state = "dead"

\* (a slip: attempts = 0 left out of dlq_retry's UPDATE)
RetriedRowKeepsAttempts(row, now) ==
    [row EXCEPT !.state = "pending", !.due_at = now,
                !.updated_at = now, !.last_error = NULL, !.picked_by = NULL]

\* (a slip: dlq_retry taking max_retries from the configuration again)
RetriedRowRereadsRetries(row, now) ==
    [row EXCEPT !.state = "pending", !.attempts = 0, !.due_at = now,
                !.updated_at = now, !.last_error = NULL, !.picked_by = NULL,
                !.max_retries = get_config.max_retries]

\* SET state = 'pending', attempts = 0, due_at = ?, updated_at = ?, ...
RetriedRow(row, now) ==
    [row EXCEPT !.state = "pending", !.attempts = 0, !.due_at = now,
                !.updated_at = now, !.last_error = NULL, !.picked_by = NULL]

\* f"Job '{job_id}' not found in DLQ"
NotInDlq(id) == Report("Job not found in DLQ", id)

\* The UPDATE ... RETURNING of dlq_retry, when it returns the row.
DlqRetry(id) ==
    /\ DlqGuard(id)
    /\ jobs' = [jobs EXCEPT ![id] = RetriedRow(jobs[id], now_iso)]
    /\ execs' = [execs EXCEPT ![id] = 0]
    /\ cli' = Quiet
    /\ UNCHANGED <<clock, config, wk, failedAt, completions, lost, others>>

\* The UPDATE ... RETURNING of dlq_retry, when it returns no row: dlq_retry
\* exits with the message, inside the transaction, which rolls back.
DlqRetryNone(id) ==
    /\ ~DlqGuard(id)
    /\ cli' = NotInDlq(id)
    /\ UNCHANGED <<clock, config, jobs, wk, execs, failedAt, completions, lost, others>>

----------------------------------------------------------------------------
\* init_db, which every command runs first, and the config commands.

InitDb ==
    /\ config' = SeedDefaults(config)
    /\ UNCHANGED <<clock, jobs, wk, execs, failedAt, completions, lost, cli, others>>

\* (a slip: set_config without its check of the key)
KeyAny(key) == TRUE

\* if key not in DEFAULTS: sys.exit(...)
KeyKnown(key) == key \in DOMAIN DEFAULTS

\* f"Unknown config key: {key}"
UnknownKey(key) == Report("Unknown config key", key)

\* INSERT INTO config(key,value) ... ON CONFLICT(key) DO UPDATE SET
\* value=excluded.value
Upsert(cfg, key, value) ==
    [k \in DOMAIN cfg \cup {key} |-> IF k = key THEN value ELSE cfg[k]]

\* the keys and values given to `config set`
ConfigInputs ==
    {<<"max_retries", 0>>, <<"max_retries", 1>>, <<"backoff_base", 1>>,
     <<"poll_interval", "1.0">>, <<"retries", 0>>}

\* the keys a worker reads when it starts, each with a value other than its
\* default, given to `config set`
WorkerConfigInputs ==
    {<<"poll_interval", "1.0">>, <<"backoff_base", 1>>, <<"job_timeout", 60>>}

set_config(key, value) ==
    /\ IF KeyKnown(key)
       THEN /\ config' = Upsert(config, key, value)
            /\ lastSet' = [k \in DOMAIN lastSet \cup {key} |->
                              IF k = key THEN value ELSE lastSet[k]]
            /\ cli' = Quiet
       ELSE /\ cli' = UnknownKey(key)
            /\ UNCHANGED <<config, lastSet>>
    /\ UNCHANGED <<clock, jobs, wk, execs, failedAt, completions, lost,
                   workers, stop, shutdown_event, sup, beat>>

\* `config get` prints get_config()
ConfigGet ==
    /\ cli' = Report("config get", NULL)
    /\ UNCHANGED <<clock, config, jobs, wk, execs, failedAt, completions, lost, others>>

----------------------------------------------------------------------------
\* The commands that only read: list, status, dlq list.

\* list_jobs: SELECT ... FROM jobs
list_jobs ==
    /\ cli' = Report("list", NULL)
    /\ UNCHANGED <<clock, config, jobs, wk, execs, failedAt, completions, lost, others>>

\* status_summary: SELECT state, COUNT(*) FROM jobs; SELECT ... FROM workers
status_summary ==
    /\ cli' = Report("status", NULL)
    /\ UNCHANGED <<clock, config, jobs, wk, execs, failedAt, completions, lost, others>>

\* dlq_list: SELECT ... FROM jobs WHERE state = 'dead'
dlq_list ==
    /\ cli' = Report("dlq list", NULL)
    /\ UNCHANGED <<clock, config, jobs, wk, execs, failedAt, completions, lost, others>>

----------------------------------------------------------------------------
\* Time passes, up to the tick max.
TickTo(max) ==
    /\ clock < max
    /\ clock' = clock + 1
    /\ UNCHANGED <<config, jobs, wk, execs, failedAt, completions, lost, cli, others>>

Tick == TickTo(MaxTime)

Next ==
    \/ Tick
    \/ \E job \in JobInputs : Enqueue(job)
    \/ \E w \in Workers : WorkerStart(w)
    \/ \E w \in Workers : Select(w)
    \/ \E w \in Workers : ClaimUpdate(w)
    \/ \E w \in Workers : Execute(w)
    \/ \E w \in Workers : Commit(w)
    \/ \E id \in JobIds : DlqRetry(id)

Spec == Init /\ [][Next]_vars

----------------------------------------------------------------------------
\* One worker that keeps running, under fair scheduling: the clock goes on,
\* and the worker process, a loop that sleeps at most poll_interval between
\* two turns, goes on taking its steps.

WorkerStep(w) ==
    WorkerStart(w) \/ Select(w) \/ ClaimUpdate(w) \/ Execute(w) \/ Commit(w)

LiveWorkers == {"w1"}

NextLive ==
    \/ Tick
    \/ \E job \in JobInputs : Enqueue(job)
    \/ \E w \in LiveWorkers : WorkerStart(w)
    \/ \E w \in LiveWorkers : Select(w)
    \/ \E w \in LiveWorkers : ClaimUpdate(w)
    \/ \E w \in LiveWorkers : Execute(w)
    \/ \E w \in LiveWorkers : Commit(w)
    \/ \E id \in JobIds : DlqRetry(id)

SpecLive ==
    /\ Init /\ [][NextLive]_vars
    /\ WF_vars(Tick)
    /\ \A w \in LiveWorkers : WF_vars(WorkerStep(w))

----------------------------------------------------------------------------
\* The operator at work: every command of the CLI but `worker`, with the
\* commands that fail and the commands that only read, beside one worker.

\* the JSON objects submitted here
CliJobInputs == [id : JobIds, command : Commands]

CliWorkers == {"w1"}

TickCli == TickTo(CliMaxTime)

NextCli ==
    \/ TickCli
    \/ \E job \in CliJobInputs : Enqueue(job)
    \/ \E job \in CliJobInputs : EnqueueDuplicate(job)
    \/ \E w \in CliWorkers : WorkerStart(w)
    \/ \E w \in CliWorkers : Select(w)
    \/ \E w \in CliWorkers : ClaimUpdate(w)
    \/ \E w \in CliWorkers : Execute(w)
    \/ \E w \in CliWorkers : Commit(w)
    \/ \E id \in JobIds : DlqRetry(id)
    \/ \E id \in JobIds : DlqRetryNone(id)
    \/ InitDb
    \/ \E kv \in ConfigInputs : set_config(kv[1], kv[2])
    \/ ConfigGet
    \/ list_jobs
    \/ status_summary
    \/ dlq_list

SpecCli == Init /\ [][NextCli]_vars

\* One worker at work while the operator changes what workers read at
\* their start.

\* the JSON objects submitted here
ConfJobInputs == [id : {"j1"}, command : Commands, max_retries : {1}]

NextConf ==
    \/ Tick
    \/ \E job \in ConfJobInputs : Enqueue(job)
    \/ \E w \in CliWorkers : WorkerStart(w)
    \/ \E w \in CliWorkers : Select(w)
    \/ \E w \in CliWorkers : ClaimUpdate(w)
    \/ \E w \in CliWorkers : Execute(w)
    \/ \E w \in CliWorkers : Commit(w)
    \/ \E kv \in WorkerConfigInputs : set_config(kv[1], kv[2])

SpecConf == Init /\ [][NextConf]_vars

\* Jobs whose commands print little or much, worked by two workers.

\* the commands submitted here
OutCommands == {"cat flag", "seq 1 3000"}

\* the JSON objects submitted here
OutJobInputs == [id : JobIds, command : OutCommands, max_retries : {0}]

NextOut ==
    \/ Tick
    \/ \E job \in OutJobInputs : Enqueue(job)
    \/ \E w \in Workers : WorkerStart(w)
    \/ \E w \in Workers : Select(w)
    \/ \E w \in Workers : ClaimUpdate(w)
    \/ \E w \in Workers : Execute(w)
    \/ \E w \in Workers : Commit(w)
    \/ \E id \in JobIds : DlqRetry(id)

SpecOut == Init /\ [][NextOut]_vars

----------------------------------------------------------------------------
\* Shutdown.  stop_workers runs in the supervisor (from its signal handler,
\* where _worker_processes holds every worker it started) or in a `worker
\* stop` process of its own (where _worker_processes is empty).

\* proc.is_alive() / os.kill(pid, 0)
Alive(w) == wk[w].pc \notin {"unborn", "exited", "killed"}

\* time.sleep(2), in seconds
StopGrace == 2

\* (a slip: stopped_at left out of stop_workers' UPDATE)
MarkStoppedNoStamp(row, now) == [row EXCEPT !.status = "stopped"]

\* stop_workers: UPDATE workers SET status = 'stopped', stopped_at = ?
MarkStopped(row, now) == [row EXCEPT !.status = "stopped", !.stopped_at = now]

\* worker_process, on its way out: UPDATE workers SET status = 'stopped',
\* stopped_at = ? WHERE id = ?
SelfStopped(row, now) == [row EXCEPT !.status = "stopped", !.stopped_at = now]

\* stop_workers up to its first sleep: the events of the live workers it
\* knows are set, and the workers marked running are read from the store.
\* With none of either it prints "No workers running" and returns.  In the
\* supervisor it runs in the signal handler, which ends with sys.exit: the
\* supervisor starts no worker after it.
StopBegin(inSupervisor) ==
    /\ stop.pc = "idle"
    /\ inSupervisor => sup.up
    /\ LET known == IF inSupervisor
                    THEN {w \in Workers : sup.step[w] = "listed"} ELSE {}
           running == {w \in DOMAIN workers : workers[w].status = "running"} IN
       /\ shutdown_event' = [w \in Workers |->
                                shutdown_event[w] \/ (w \in known /\ Alive(w))]
       /\ IF running = {} /\ known = {}
          THEN cli' = Quiet /\ UNCHANGED stop
          ELSE /\ stop' = [pc |-> "wait", at |-> clock,
                           targets |-> known \cup running, running |-> running]
               /\ UNCHANGED cli
    /\ sup' = [sup EXCEPT !.up = @ /\ ~inSupervisor]
    /\ UNCHANGED <<clock, config, jobs, wk, execs, failedAt, completions, lost,
                   workers, lastSet, beat>>

\* stop_workers from the end of its first sleep: the workers still alive
\* are terminated (proc.terminate(), os.kill(pid, SIGTERM)) and, a second
\* later, killed; then the rows marked running are marked stopped.  A live
\* process ends where it stands, whatever it holds: once it gets SIGTERM it
\* writes nothing more to the jobs table, so its end is taken at the signal.
StopForce ==
    /\ stop.pc = "wait"
    /\ clock >= stop.at + StopGrace * TicksPerSec
    /\ wk' = [w \in Workers |->
                IF w \in stop.targets /\ Alive(w)
                THEN [wk[w] EXCEPT !.pc = "killed"] ELSE wk[w]]
    /\ workers' = [w \in DOMAIN workers |->
                     IF workers[w].status = "running"
                     THEN MarkStopped(workers[w], now_iso) ELSE workers[w]]
    /\ stop' = NoStop
    /\ cli' = Quiet
    /\ UNCHANGED <<clock, config, jobs, execs, failedAt, completions, lost,
                   shutdown_event, lastSet, sup, beat>>

\* while not shutdown_event.is_set(): with the event set the loop ends,
\* process_job returns, and worker_process marks its row stopped.
LoopExit(w) ==
    /\ wk[w].pc = "pick"
    /\ shutdown_event[w]
    /\ wk' = [wk EXCEPT ![w].pc = "exited"]
    /\ workers' = [workers EXCEPT ![w] = SelfStopped(@, now_iso)]
    /\ UNCHANGED <<clock, config, jobs, execs, failedAt, completions, lost, cli,
                   stop, shutdown_event, lastSet, sup, beat>>

\* the JSON objects submitted here
LifeJobInputs == [id : JobIds, command : Commands, max_retries : {0}]

NextLife ==
    \/ Tick
    \/ \E job \in LifeJobInputs : Enqueue(job)
    \/ \E w \in Workers : WorkerStart(w)
    \/ \E w \in Workers : Select(w)
    \/ \E w \in Workers : ClaimUpdate(w)
    \/ \E w \in Workers : Execute(w)
    \/ \E w \in Workers : Commit(w)
    \/ \E inSupervisor \in BOOLEAN : StopBegin(inSupervisor)
    \/ StopForce
    \/ \E w \in Workers : LoopExit(w)

SpecLife == Init /\ [][NextLife]_vars

----------------------------------------------------------------------------
\* The life of a worker from `worker start` on: start_workers registers,
\* spawns and marks each worker in turn; the worker beats, works, and may
\* be failed by the store; stop_workers ends it.

\* start_workers: INSERT INTO workers ..., with the supervisor's own pid.
Register(w) ==
    /\ sup.up
    /\ sup.step[w] = "new"
    /\ \A v \in Workers : sup.step[v] \in {"new", "listed"}
    /\ workers' = [v \in DOMAIN workers \cup {w} |->
                      IF v = w THEN WorkerRow("supervisor", now_iso) ELSE workers[v]]
    /\ sup' = [sup EXCEPT !.step[w] = "registered"]
    /\ UNCHANGED <<clock, config, jobs, wk, execs, failedAt, completions, lost, cli,
                   stop, shutdown_event, lastSet, beat>>

\* start_workers: proc.start(); the child starts its heartbeat thread and
\* enters process_job.
Spawn(w) ==
    /\ sup.up
    /\ sup.step[w] = "registered"
    /\ wk' = [wk EXCEPT ![w].pc = "start"]
    /\ beat' = [beat EXCEPT ![w] = clock]
    /\ sup' = [sup EXCEPT !.step[w] = "spawned"]
    /\ UNCHANGED <<clock, config, jobs, execs, failedAt, completions, lost, cli,
                   workers, stop, shutdown_event, lastSet>>

\* start_workers: the UPDATE after the spawn, then the worker is appended
\* to _worker_processes.
MarkRunning(w) ==
    /\ sup.up
    /\ sup.step[w] = "spawned"
    /\ workers' = [workers EXCEPT ![w] = RunningRow(@, w)]
    /\ sup' = [sup EXCEPT !.step[w] = "listed"]
    /\ UNCHANGED <<clock, config, jobs, wk, execs, failedAt, completions, lost, cli,
                   stop, shutdown_event, lastSet, beat>>

\* time.sleep(5), in seconds
HeartbeatEvery == 5

\* (a slip: stopped_at written along with heartbeat_at)
BeatRowStops(row, now) == [row EXCEPT !.heartbeat_at = now, !.stopped_at = now]

\* UPDATE workers SET heartbeat_at = ? WHERE id = ?
BeatRow(row, now) == [row EXCEPT !.heartbeat_at = now]

\* heartbeat_loop, one turn: the UPDATE, then the sleep.
Heartbeat(w) ==
    /\ Alive(w)
    /\ ~shutdown_event[w]
    /\ clock >= beat[w]
    /\ workers' = [workers EXCEPT ![w] = BeatRow(@, now_iso)]
    /\ beat' = [beat EXCEPT ![w] = clock + HeartbeatEvery * TicksPerSec]
    /\ UNCHANGED <<clock, config, jobs, wk, execs, failedAt, completions, lost, cli,
                   stop, shutdown_event, lastSet, sup>>

\* heartbeat_loop, one turn in which the store raises: except: pass, then
\* the sleep.
HeartbeatFails(w) ==
    /\ Alive(w)
    /\ ~shutdown_event[w]
    /\ clock >= beat[w]
    /\ beat' = [beat EXCEPT ![w] = clock + HeartbeatEvery * TicksPerSec]
    /\ UNCHANGED <<clock, config, jobs, wk, execs, failedAt, completions, lost, cli,
                   workers, stop, shutdown_event, lastSet, sup>>

\* (a slip: process_job catching the store's error and going on)
RaisedSwallowed(local) == IdleWorker(local.poll, local.base, local.timeout)

\* an exception leaves process_job: the worker's loop is over
Raised(local) == [local EXCEPT !.pc = "exited"]

\* The store raises in a statement of the worker (get_config, the SELECT,
\* the claim, the commit of a result): the transaction rolls back, the
\* exception leaves process_job, and worker_process marks its row stopped
\* on the way out, unless the store raises again.
StoreFails(w) ==
    /\ wk[w].pc \in {"start", "pick", "claim", "commit"}
    /\ wk' = [wk EXCEPT ![w] = Raised(@)]
    /\ \E allowed \in BOOLEAN :
          workers' = IF allowed
                     THEN [workers EXCEPT ![w] = SelfStopped(@, now_iso)]
                     ELSE workers
    /\ UNCHANGED <<clock, config, jobs, execs, failedAt, completions, lost, cli,
                   stop, shutdown_event, lastSet, sup, beat>>

\* The state after init_db, before any `worker start`.
InitBoot ==
    /\ clock = 0
    /\ config = SeedDefaults(<< >>)
    /\ cli = Quiet
    /\ workers = << >>
    /\ stop = NoStop
    /\ sup = [up |-> TRUE, step |-> [w \in Workers |-> "new"]]
    /\ beat = [w \in Workers |-> 0]
    /\ shutdown_event = [w \in Workers |-> FALSE]
    /\ lastSet = << >>
    /\ jobs = << >>
    /\ wk = [w \in Workers |-> [IdleWorker(NULL, 0, 0) EXCEPT !.pc = "unborn"]]
    /\ execs = [j \in JobIds |-> 0]
    /\ failedAt = [j \in JobIds |-> 0]
    /\ completions = [j \in JobIds |-> 0]
    /\ lost = [w \in Workers |-> FALSE]

\* the JSON objects submitted here
BootJobInputs == [id : {"j1"}, command : Commands, max_retries : {0}]

\* the workers `worker start` is asked for here
BootWorkers == {"w1"}

NextBoot ==
    \/ Tick
    \/ \E job \in BootJobInputs : Enqueue(job)
    \/ \E w \in BootWorkers : Register(w)
    \/ \E w \in BootWorkers : Spawn(w)
    \/ \E w \in BootWorkers : MarkRunning(w)
    \/ \E w \in BootWorkers : WorkerStart(w)
    \/ \E w \in BootWorkers : Select(w)
    \/ \E w \in BootWorkers : ClaimUpdate(w)
    \/ \E w \in BootWorkers : Execute(w)
    \/ \E w \in BootWorkers : Commit(w)
    \/ \E w \in BootWorkers : StoreFails(w)
    \/ \E inSupervisor \in BOOLEAN : StopBegin(inSupervisor)
    \/ StopForce
    \/ \E w \in BootWorkers : LoopExit(w)

SpecBoot == InitBoot /\ [][NextBoot]_vars

\* Workers that die: by the store's error or by `worker stop`, with the
\* operator retrying from the DLQ meanwhile.
NextCrash ==
    \/ Tick
    \/ \E job \in BootJobInputs : Enqueue(job)
    \/ \E w \in Workers : WorkerStart(w)
    \/ \E w \in Workers : Select(w)
    \/ \E w \in Workers : ClaimUpdate(w)
    \/ \E w \in Workers : Execute(w)
    \/ \E w \in Workers : Commit(w)
    \/ \E w \in Workers : StoreFails(w)
    \/ \E id \in JobIds : DlqRetry(id)
    \/ \E id \in JobIds : DlqRetryNone(id)
    \/ StopBegin(FALSE)
    \/ StopForce

SpecCrash == Init /\ [][NextCrash]_vars

\* Workers at work while their heartbeat threads beat.
NextBeat ==
    \/ Tick
    \/ \E job \in BootJobInputs : Enqueue(job)
    \/ \E w \in Workers : WorkerStart(w)
    \/ \E w \in Workers : Select(w)
    \/ \E w \in Workers : ClaimUpdate(w)
    \/ \E w \in Workers : Execute(w)
    \/ \E w \in Workers : Commit(w)
    \/ \E w \in Workers : Heartbeat(w)
    \/ \E w \in Workers : HeartbeatFails(w)

SpecBeat == Init /\ [][NextBeat]_vars

----------------------------------------------------------------------------
\* Jobs of different priorities, some of them to run later, worked by one
\* worker.

PrioJobInputs ==
    [id : JobIds, command : Commands, max_retries : 0..MaxRetriesIn,
     priority : {0, 1}]
    \cup [id : JobIds, command : Commands, max_retries : {0}, priority : {1},
          run_at : {Stamp(s, 0, "iso") : s \in RunAtSecs}]

PrioWorkers == {"w1"}

NextPrio ==
    \/ Tick
    \/ \E job \in PrioJobInputs : Enqueue(job)
    \/ \E w \in PrioWorkers : WorkerStart(w)
    \/ \E w \in PrioWorkers : Select(w)
    \/ \E w \in PrioWorkers : ClaimUpdate(w)
    \/ \E w \in PrioWorkers : Execute(w)
    \/ \E w \in PrioWorkers : Commit(w)
    \/ \E id \in JobIds : DlqRetry(id)

SpecPrio == Init /\ [][NextPrio]_vars

----------------------------------------------------------------------------
\* What the claims below speak of.

\* the worker has claimed a job and has not yet committed its result
Holds(w) == wk[w].pc \in {"run", "commit"}

\* the step moves job j into 'processing': a claim that returns the job
Claimed(j) == jobs[j].state # "processing" /\ jobs'[j].state = "processing"

\* worker w's claiming UPDATE is applied in the step
ClaimStep(w) == wk[w].pc = "claim" /\ wk'[w].pc # "claim"

\* worker w's result commit is applied in the step
CommitStep(w) == wk[w].pc = "commit" /\ wk'[w].pc # "commit"

----------------------------------------------------------------------------
\* C1: in every reachable state a job has picked_by set exactly when its
\* state is 'processing', the worker it names is the only worker that holds
\* it, and no job is held by two workers.
C1_ExclusiveClaim ==
    /\ \A j \in DOMAIN jobs :
         (jobs[j].picked_by # NULL) <=> (jobs[j].state = "processing")
    /\ \A w \in Workers :
         Holds(w) => jobs[wk[w].job_id].picked_by = w
    /\ \A v, w \in Workers :
         Holds(v) /\ Holds(w) /\ wk[v].job_id = wk[w].job_id => v = w

\* a worker holds a job that the other worker has selected and not yet tried
\* to claim
C1_Witness ==
    \E v, w \in Workers :
        /\ v # w /\ wk[v].pc = "run" /\ wk[w].pc = "claim"
        /\ wk[v].job_id = wk[w].job_id
        /\ jobs[wk[v].job_id].picked_by = v

\* C2 (as claimed): a worker whose selected job was claimed by another worker
\* after its SELECT gets no row from its own claiming UPDATE and returns
\* empty for that cycle.
C2_LoserReturnsEmpty ==
    [][\A w \in Workers :
          ClaimStep(w) /\ lost[w] =>
              wk'[w].pc = "pick" /\ jobs' = jobs]_vars

\* C3 (as claimed): whenever a claim moves a job to 'processing', the instant
\* its due_at names is not later than the clock at that step.
C3_ClaimedJobIsDue ==
    [][\A j \in DOMAIN jobs :
          Claimed(j) => Instant(jobs[j].due_at) <= clock]_vars

\* every finished execution of the job, since it was enqueued or last
\* re-admitted from the DLQ, has succeeded
OnlySucceeded(j) ==
    \/ jobs[j].attempts = 0 /\ jobs[j].state \in {"pending", "processing"}
    \/ jobs[j].attempts = 1 /\ jobs[j].state = "completed"

\* C4: no job is held by two workers at once; a job is completed at most
\* once and, once completed, is not executed again; and while every finished
\* execution has succeeded, each job was executed at most once, exactly once
\* when it is completed: N jobs, N executions, N completions.
C4_NoDoubleExecution ==
    /\ [](\A v, w \in Workers :
            Holds(v) /\ Holds(w) /\ wk[v].job_id = wk[w].job_id => v = w)
    /\ [](\A j \in DOMAIN jobs :
            /\ completions[j] = (IF jobs[j].state = "completed" THEN 1 ELSE 0)
            /\ jobs[j].state = "completed" =>
                   \A w \in Workers : ~(Holds(w) /\ wk[w].job_id = j))
    /\ []((\A j \in DOMAIN jobs : OnlySucceeded(j)) =>
            \A j \in DOMAIN jobs :
                /\ execs[j] <= 1
                /\ jobs[j].state = "completed" => execs[j] = 1)
    /\ [][\A j \in DOMAIN jobs :
            jobs[j].state = "completed" => execs'[j] = execs[j]]_vars

\* every job id is enqueued and every job is completed by its first
\* execution: as many executions and completions as jobs
C4_Witness ==
    /\ DOMAIN jobs = JobIds
    /\ \A j \in JobIds :
         /\ jobs[j].state = "completed" /\ jobs[j].attempts = 1
         /\ execs[j] = 1 /\ completions[j] = 1

\* C5: a completed job never changes state again; a dead job changes state
\* only by dlq_retry (to 'pending', no worker taking a step); and a worker
\* about to commit a result always finds its job in 'processing'.
C5_TerminalSticky ==
    /\ [](\A w \in Workers :
            wk[w].pc = "commit" => jobs[wk[w].job_id].state = "processing")
    /\ [][\A j \in DOMAIN jobs :
            /\ jobs[j].state = "completed" => jobs'[j].state = "completed"
            /\ jobs[j].state = "dead" =>
                 \/ jobs'[j].state = "dead"
                 \/ jobs'[j].state = "pending" /\ wk' = wk]_vars

\* a worker is about to send its claiming UPDATE for a job that has been
\* completed since the worker selected it, and a dead job has been re-admitted
C5_Witness ==
    /\ \E w \in Workers :
          wk[w].pc = "claim" /\ jobs[wk[w].job_id].state = "completed"
    /\ \E j \in DOMAIN jobs :
          /\ jobs[j].state = "pending"
          /\ Instant(jobs[j].updated_at) > Instant(jobs[j].created_at)

\* C6: a job with max_retries = M >= 0 is never executed more than M + 1
\* times (counted since enqueue or the last dlq_retry), and when it is dead
\* it has been executed exactly M + 1 times and its attempts is M + 1.
C6_DeadAfterMPlus1 ==
    \A j \in DOMAIN jobs :
        jobs[j].max_retries >= 0 =>
            /\ execs[j] <= jobs[j].max_retries + 1
            /\ jobs[j].state = "dead" =>
                 /\ jobs[j].attempts = jobs[j].max_retries + 1
                 /\ execs[j] = jobs[j].max_retries + 1

\* a job with max_retries = 1 is dead, after two executions
C6_Witness ==
    \E j \in DOMAIN jobs :
        jobs[j].state = "dead" /\ jobs[j].max_retries = 1 /\ execs[j] = 2

\* C7 (as claimed): the execution that follows the k-th failure of a job
\* starts no earlier than backoff_base^k seconds after that failure was
\* committed.
C7_BackoffLaw ==
    [][\A j \in DOMAIN jobs :
          jobs[j].state = "failed" /\ Claimed(j) =>
              clock >= failedAt[j]
                       + Pow(config.backoff_base, jobs[j].attempts) * TicksPerSec]_vars

\* C8: attempts of a job never decreases from one step to the next, except
\* in a dlq_retry of a dead job, which sets it to 0.
C8_AttemptsMonotone ==
    [][\A j \in DOMAIN jobs :
          \/ jobs'[j].attempts >= jobs[j].attempts
          \/ /\ jobs[j].state = "dead" /\ jobs'[j].state = "pending"
             /\ jobs'[j].attempts = 0 /\ wk' = wk]_vars

\* a job has been re-admitted from the DLQ (only dlq_retry leaves a pending
\* row whose updated_at is later than its created_at): its attempts went up
\* to max_retries + 1 = 2 and back to 0
C8_Witness ==
    \E j \in DOMAIN jobs :
        /\ jobs[j].state = "pending" /\ jobs[j].attempts = 0
        /\ jobs[j].max_retries = 1
        /\ Instant(jobs[j].updated_at) > Instant(jobs[j].created_at)

\* C9: the commit of a successful execution leaves the job completed, with
\* attempts one more than before, last_error and picked_by null; a job
\* completed by its first execution has attempts = 1.
C9_SuccessCommit ==
    /\ [][\A w \in Workers :
            CommitStep(w) /\ wk[w].success =>
                LET j == wk[w].job_id IN
                /\ jobs'[j].state = "completed"
                /\ jobs'[j].attempts = jobs[j].attempts + 1
                /\ jobs'[j].last_error = NULL
                /\ jobs'[j].picked_by = NULL]_vars
    /\ [](\A j \in DOMAIN jobs :
            jobs[j].state = "completed" /\ execs[j] = 1 => jobs[j].attempts = 1)

\* a job is completed by its second execution, the first having failed
C9_Witness ==
    \E j \in DOMAIN jobs :
        jobs[j].state = "completed" /\ jobs[j].attempts = 2 /\ execs[j] = 2

\* C10: the commit of a failed execution with a' = attempts + 1 <=
\* max_retries leaves the job failed, with attempts = a', picked_by null,
\* last_error the execution's error, and due_at the instant of the commit
\* plus backoff_base^a' seconds.
C10_FailureCommit ==
    [][\A w \in Workers :
          LET j == wk[w].job_id IN
          CommitStep(w) /\ ~wk[w].success
            /\ jobs[j].attempts + 1 <= jobs[j].max_retries =>
              /\ jobs'[j].state = "failed"
              /\ jobs'[j].attempts = jobs[j].attempts + 1
              /\ jobs'[j].picked_by = NULL
              /\ jobs'[j].last_error = wk[w].error
              /\ jobs'[j].last_error # NULL
              /\ Instant(jobs'[j].due_at) =
                    clock + Pow(config.backoff_base, jobs'[j].attempts) * TicksPerSec]_vars

\* a failure was committed between two seconds: the job is failed and its
\* due_at is written with a fraction
C10_Witness ==
    \E j \in DOMAIN jobs :
        /\ jobs[j].state = "failed" /\ jobs[j].attempts = 1
        /\ jobs[j].due_at.sub # 0

\* C11: a dlq_retry of a dead job leaves it pending, with attempts = 0,
\* last_error and picked_by null and due_at the current time, so that the
\* job is eligible for a claim at once.
C11_DlqRetryResets ==
    [][\A j \in DOMAIN jobs :
          jobs[j].state = "dead" /\ jobs'[j] # jobs[j] =>
              /\ jobs'[j].state = "pending"
              /\ jobs'[j].attempts = 0
              /\ jobs'[j].last_error = NULL
              /\ jobs'[j].picked_by = NULL
              /\ jobs'[j].due_at = now_iso
              /\ StrLeq(jobs'[j].due_at, now_iso)]_vars

\* a job that died at its only attempt has been re-admitted in a later
\* second and is due at once
C11_Witness ==
    \E j \in DOMAIN jobs :
        /\ jobs[j].state = "pending" /\ jobs[j].attempts = 0
        /\ jobs[j].max_retries = 0 /\ jobs[j].last_error = NULL
        /\ jobs[j].due_at = now_iso /\ j \in Eligible(now_iso)
        /\ jobs[j].updated_at = now_iso
        /\ Instant(jobs[j].updated_at) > Instant(jobs[j].created_at)

\* C12: a dlq_retry that ends in "not found in DLQ" was given an id with no
\* row or with a row that is not dead, and leaves the jobs table as it is;
\* and no job that is not dead is moved back to 'pending'.
C12_DlqRetryRefused ==
    /\ [][\A id \in JobIds :
            cli' = NotInDlq(id) /\ cli' # cli =>
                /\ id \notin DOMAIN jobs \/ jobs[id].state # "dead"
                /\ jobs' = jobs]_vars
    /\ [][\A j \in DOMAIN jobs :
            jobs'[j].state = "pending" /\ jobs[j].state # "pending" =>
                jobs[j].state = "dead"]_vars

\* dlq_retry has been refused for a job that is being processed, while
\* another job is dead
C12_Witness ==
    \E i, j \in DOMAIN jobs :
        /\ cli = NotInDlq(j) /\ jobs[j].state = "processing"
        /\ jobs[i].state = "dead"

\* C13: an enqueue that ends in the duplicate-id error was given the id of a
\* stored job and leaves every row of every table as it is; and no step of
\* the operator changes a stored job, except the dlq_retry of a dead one.
C13_DuplicateRejected ==
    /\ [][\A id \in JobIds :
            cli' = AlreadyExists(id) /\ cli' # cli =>
                /\ id \in DOMAIN jobs
                /\ jobs' = jobs /\ workers' = workers /\ config' = config]_vars
    /\ [][\A j \in DOMAIN jobs :
            /\ j \in DOMAIN jobs'
            /\ wk' = wk => jobs'[j] = jobs[j] \/ jobs[j].state = "dead"]_vars

\* an enqueue has been refused for the id of a completed job, and another for
\* none: both jobs are stored
C13_Witness ==
    /\ DOMAIN jobs = JobIds
    /\ \E j \in JobIds : cli = AlreadyExists(j) /\ jobs[j].state = "completed"

\* C16: the config table never holds a key outside DEFAULTS; a config set
\* that ends in the unknown-key error was given such a key and leaves the
\* table as it is; and get_config gives, for each key, the value last set
\* for it, or its default when none was set.
C16_ConfigSet ==
    /\ [](DOMAIN config = DOMAIN DEFAULTS)
    /\ [](\A k \in DOMAIN DEFAULTS :
            get_config[k] = IF k \in DOMAIN lastSet THEN lastSet[k] ELSE DEFAULTS[k])
    /\ [][\A kv \in ConfigInputs :
            cli' = UnknownKey(kv[1]) /\ cli' # cli =>
                kv[1] \notin DOMAIN DEFAULTS /\ config' = config]_vars

\* two keys have been set, one of them to a value other than the first set
\* for it, and then an unknown key was refused
C16_Witness ==
    /\ cli = UnknownKey("retries")
    /\ DOMAIN lastSet = {"max_retries", "backoff_base"}
    /\ get_config.max_retries = 1 /\ get_config.backoff_base = 1
    /\ \E j \in DOMAIN jobs : jobs[j].max_retries = 0

\* the commands that only read
ReadingCommands == {"list", "status", "config get", "dlq list"}

\* C17: in every reachable state init_db's seeding of the defaults would
\* leave the config table as it is, and a command that only reads changes no
\* row of the jobs, workers and config tables.
C17_RestartKeepsRows ==
    /\ [](SeedDefaults(config) = config)
    /\ [][cli'.msg \in ReadingCommands /\ cli' # cli =>
            jobs' = jobs /\ workers' = workers /\ config' = config]_vars

\* a config value is set to another than its default, a job is stored, and
\* a reading command has run
C17_Witness ==
    /\ config.max_retries # DEFAULTS.max_retries
    /\ \E j \in DOMAIN jobs : jobs[j].state = "failed"
    /\ cli.msg = "list"

\* C14 (as claimed): the commit of every execution, successful or failed,
\* leaves in the job's output column the output captured from that
\* execution, cut to the limit.
C14_OutputOfLastExecution ==
    [][\A w \in Workers :
          CommitStep(w) =>
              jobs'[wk[w].job_id].output = Slice(wk[w].output, OutputLimit)]_vars

\* the jobs in the given states
InStates(states) == {j \in DOMAIN jobs : jobs[j].state \in states}

\* the workers that have entered their loop
Started == {w \in Workers : wk[w].pc # "start"}

\* C18: each worker id is the picked_by of at most one job; the jobs in
\* 'processing' are no more than the workers started; and the jobs completed
\* or dead are no more than the jobs enqueued.
C18_Counts ==
    /\ \A w \in Workers :
          Cardinality({j \in DOMAIN jobs : jobs[j].picked_by = w}) <= 1
    /\ Cardinality(InStates({"processing"})) <= Cardinality(Started)
    /\ Cardinality(InStates({"completed", "dead"})) <= Cardinality(DOMAIN jobs)

\* the one worker started has completed a job and then claimed the other,
\* which it holds in its second execution
C18_Witness ==
    \E w \in Workers : \E i, j \in DOMAIN jobs :
        /\ jobs[i].state = "completed" /\ jobs[j].state = "processing"
        /\ jobs[j].picked_by = w /\ execs[j] = 2
        /\ \A v \in Workers \ {w} : wk[v].pc = "start"

\* the jobs due at the clock's time: in 'pending' or 'failed', and the
\* instant of due_at not later than the clock
DueJobs ==
    {j \in DOMAIN jobs : /\ jobs[j].state \in {"pending", "failed"}
                         /\ Instant(jobs[j].due_at) <= clock}

\* worker w's SELECT returns job j in the step
Selects(w, j) == wk[w].pc = "pick" /\ wk'[w].pc = "claim" /\ wk'[w].job_id = j

\* C20 (as claimed): the job a SELECT returns is due, and of the jobs due it
\* has the largest priority, among those the earliest due_at, and among
\* those the earliest created_at.
C20_SelectOrder ==
    [][\A w \in Workers : \A j \in DOMAIN jobs :
          Selects(w, j) =>
              /\ j \in DueJobs
              /\ \A k \in DueJobs :
                    \/ jobs[j].priority > jobs[k].priority
                    \/ /\ jobs[j].priority = jobs[k].priority
                       /\ \/ Instant(jobs[j].due_at) < Instant(jobs[k].due_at)
                          \/ /\ Instant(jobs[j].due_at) = Instant(jobs[k].due_at)
                             /\ Instant(jobs[j].created_at)
                                    <= Instant(jobs[k].created_at)]_vars

\* C15 (as claimed): a worker that has ended, by leaving its loop or by
\* stop_workers, has committed the result of the job it was executing: no
\* job in 'processing' names it.
C15_ShutdownFinishesJob ==
    \A w \in Workers :
        ~Alive(w) =>
            \A j \in DOMAIN jobs :
                ~(jobs[j].state = "processing" /\ jobs[j].picked_by = w)

\* the job is completed or dead, or the clock has reached the last tick of
\* the model with the job waiting for a due_at that lies beyond it
Settled(j) ==
    \/ jobs[j].state \in {"completed", "dead"}
    \/ /\ clock = MaxTime
       /\ jobs[j].state \in {"pending", "failed"}
       /\ ~StrLeq(jobs[j].due_at, now_iso)

OperatorAdds ==
    \/ \E job \in JobInputs : Enqueue(job)
    \/ \E id \in JobIds : DlqRetry(id)

DeadColumns == {"state", "attempts", "last_error", "picked_by", "updated_at"}

\* C21: the commit that moves a job to dead changes, of that job, only
\* state, attempts, last_error, picked_by and updated_at, and changes no
\* other job; and due_at of a job is the same after every step that leaves
\* it processing or dead, so that the dead job has the due_at it was
\* claimed with.
C21_DeadKeepsDueAt ==
    [][\A j \in DOMAIN jobs :
          /\ (jobs[j].state = "processing" /\ jobs'[j].state = "dead") =>
                /\ \E w \in Workers : CommitStep(w) /\ wk[w].job_id = j
                /\ \A f \in DOMAIN jobs[j] \ DeadColumns : jobs'[j][f] = jobs[j][f]
                /\ \A i \in DOMAIN jobs \ {j} : jobs'[i] = jobs[i]
          /\ jobs'[j].state \in {"processing", "dead"} =>
                jobs'[j].due_at = jobs[j].due_at]_vars

\* a job is dead after its retry, and its due_at still is the one its
\* first failure gave it, fraction included
C21_Witness ==
    \E j \in DOMAIN jobs :
        /\ jobs[j].state = "dead" /\ jobs[j].attempts = 2
        /\ jobs[j].due_at.sub # 0
        /\ Instant(jobs[j].due_at) > Instant(jobs[j].created_at)

\* C29: of every job enqueued with max_retries >= 0: pending has attempts
\* 0, processing at most max_retries, failed between 1 and max_retries,
\* dead max_retries + 1, completed between 1 and max_retries + 1.
C29_AttemptsByState ==
    \A j \in DOMAIN jobs :
        LET a == jobs[j].attempts
            m == jobs[j].max_retries IN
        m >= 0 =>
            /\ jobs[j].state = "pending" => a = 0
            /\ jobs[j].state = "processing" => a <= m
            /\ jobs[j].state = "failed" => 1 <= a /\ a <= m
            /\ jobs[j].state = "dead" => a = m + 1
            /\ jobs[j].state = "completed" => 1 <= a /\ a <= m + 1

\* one job is being retried, claimed with attempts = max_retries = 1, while
\* the other is dead with attempts = 1 = max_retries + 1
C29_Witness ==
    \E i, j \in DOMAIN jobs :
        /\ jobs[i].state = "processing" /\ jobs[i].attempts = 1
        /\ jobs[i].max_retries = 1
        /\ jobs[j].state = "dead" /\ jobs[j].attempts = 1
        /\ jobs[j].max_retries = 0

\* C30: a failed or dead job has a last_error, and a completed or pending
\* job has none.
C30_LastErrorByState ==
    \A j \in DOMAIN jobs :
        /\ jobs[j].state \in {"failed", "dead"} => jobs[j].last_error # NULL
        /\ jobs[j].state \in {"completed", "pending"} => jobs[j].last_error = NULL

\* one job was completed by its retry, which cleared the error of its
\* first execution, while the other is waiting for its retry with the
\* error of its first
C30_Witness ==
    \E i, j \in DOMAIN jobs :
        /\ jobs[i].state = "completed" /\ jobs[i].attempts = 2
        /\ jobs[i].last_error = NULL
        /\ jobs[j].state = "failed" /\ jobs[j].attempts = 1
        /\ jobs[j].last_error # NULL

\* C28: a worker's poll_interval, backoff_base and job_timeout are the values the store
\* held when the worker started and change in no later step, set_config
\* included; the delay of a retry is computed from the worker's own
\* backoff_base; and a worker that starts reads the values the store holds
\* then.
C28_ConfigReadOnce ==
    [][\A w \in Workers :
          /\ wk[w].pc # "start" =>
                /\ wk'[w].poll = wk[w].poll
                /\ wk'[w].base = wk[w].base
                /\ wk'[w].timeout = wk[w].timeout
          /\ (wk[w].pc = "start" /\ wk'[w].pc # "start") =>
                /\ wk'[w].poll = config.poll_interval
                /\ wk'[w].base = config.backoff_base
                /\ wk'[w].timeout = config.job_timeout
          /\ \A j \in DOMAIN jobs :
                (CommitStep(w) /\ wk[w].job_id = j /\ jobs'[j].state = "failed") =>
                    Instant(jobs'[j].due_at)
                      = clock + Pow(wk[w].base, jobs'[j].attempts) * TicksPerSec]_vars

\* poll_interval, backoff_base and job_timeout were set to 1.0, 1 and 60
\* after the worker had started with 0.5, 2 and 120, and a failure the worker committed is to be
\* retried after 2^1 seconds
C28_Witness ==
    \E w \in Workers : \E j \in DOMAIN jobs :
        /\ wk[w].pc # "start" /\ wk[w].base = 2 /\ wk[w].timeout = 120
        /\ wk[w].poll = "0.5" /\ config.poll_interval = "1.0"
        /\ config.backoff_base = 1 /\ config.job_timeout = 60
        /\ jobs[j].state = "failed" /\ jobs[j].attempts = 1
        /\ Instant(jobs[j].due_at) = Instant(jobs[j].updated_at) + 2 * TicksPerSec
        /\ Instant(jobs[j].updated_at) > 0

\* C25 (as claimed): a worker's row is inserted as 'starting' before its
\* process is spawned, and its status only moves forward along starting,
\* running, stopped: a row that is stopped stays stopped, and a row that
\* is running does not become starting again.
C25_StatusChain ==
    [][\A w \in Workers :
          /\ (w \notin DOMAIN workers /\ w \in DOMAIN workers') =>
                workers'[w].status = "starting" /\ wk[w].pc = "unborn"
          /\ w \in DOMAIN workers =>
                /\ workers[w].status = "stopped" => workers'[w].status = "stopped"
                /\ workers[w].status = "running" => workers'[w].status # "starting"]_vars

\* a turn of w's heartbeat thread: only that moves the worker's next beat
BeatStep(w) == beat'[w] # beat[w]

\* C27: a turn of a worker's heartbeat thread, whether its UPDATE goes
\* through or the store raises, changes nothing but heartbeat_at of the
\* worker's own row: every other column of that row, every other worker's
\* row, every job, and every worker's position and locals, the job it
\* holds included, are as before.
C27_HeartbeatFrame ==
    [][\A w \in Workers :
          BeatStep(w) =>
              /\ jobs' = jobs /\ wk' = wk /\ config' = config
              /\ shutdown_event' = shutdown_event
              /\ DOMAIN workers' = DOMAIN workers
              /\ \A v \in DOMAIN workers \ {w} : workers'[v] = workers[v]
              /\ \A f \in DOMAIN workers[w] \ {"heartbeat_at"} :
                    workers'[w][f] = workers[w][f]]_vars

\* a worker beat while it held the job it had claimed a second earlier and
\* is about to commit, and a beat of the other worker, a second into the
\* run or later, failed and left its heartbeat_at as it was
C27_Witness ==
    \E w, v \in Workers :
        /\ wk[w].pc = "commit"
        /\ jobs[wk[w].job_id].updated_at.sec = 0
        /\ workers[w].heartbeat_at.sec = 1
        /\ v # w
        /\ beat[v] >= (1 + HeartbeatEvery) * TicksPerSec
        /\ workers[v].heartbeat_at.sec = 0

\* worker w has died holding job j: j is processing and names w
Orphan(w, j) ==
    ~Alive(w) /\ jobs[j].state = "processing" /\ jobs[j].picked_by = w

\* C22: a job that is processing in the name of a worker that has died is
\* the same after every step: the other worker's SELECT and claim,
\* dlq_retry, stop_workers and the start of another worker leave its row
\* as it is.
C22_OrphanStays ==
    [][\A w \in Workers : \A j \in DOMAIN jobs :
          Orphan(w, j) => jobs'[j] = jobs[j] /\ ~Alive(w)']_vars

\* a worker left its loop by the store's error holding the job; since
\* then stop_workers has ended the other worker and a dlq_retry of the job
\* was refused
C22_Witness ==
    \E w, v \in Workers : \E j \in DOMAIN jobs :
        /\ Orphan(w, j) /\ wk[w].pc = "exited"
        /\ wk[v].pc = "killed"
        /\ cli = NotInDlq(j)

\* C23: a worker that stands before the commit of a result either commits
\* it whole (the job leaves 'processing', picked_by null, attempts one
\* more) or, when the store raises or the worker is killed, ends with all
\* jobs as they were, the job still processing in its name; its own row is
\* as before or stopped with stopped_at set.
C23_CommitAllOrNothing ==
    [][\A w \in Workers :
          (wk[w].pc = "commit" /\ wk'[w].pc # "commit") =>
              LET j == wk[w].job_id IN
              \/ /\ jobs'[j].state \in {"completed", "failed", "dead"}
                 /\ jobs'[j].picked_by = NULL
                 /\ jobs'[j].attempts = jobs[j].attempts + 1
              \/ /\ jobs' = jobs
                 /\ jobs[j].state = "processing" /\ jobs[j].picked_by = w
                 /\ wk'[w].pc \in {"exited", "killed"}
                 /\ \/ workers'[w] = workers[w]
                    \/ /\ workers'[w].status = "stopped"
                       /\ workers'[w].stopped_at # NoStamp]_vars

\* the store raised at a worker's commit and again when the worker went to
\* mark itself stopped: the worker is gone, its row says running, and the
\* job is processing in its name
C23_Witness ==
    \E w \in Workers : \E j \in DOMAIN jobs :
        /\ wk[w].pc = "exited" /\ wk[w].job_id = j
        /\ jobs[j].state = "processing" /\ jobs[j].picked_by = w
        /\ workers[w].status = "running"

\* the rows the store marks running
RunningRows == {w \in DOMAIN workers : workers[w].status = "running"}

\* stop_workers ends in the step
StopEnds == stop.pc = "wait" /\ stop'.pc = "idle"

\* C26: when stop_workers ends, every worker whose row it found running
\* has its row stopped with stopped_at set and its process ended, as has
\* every child the supervisor knew; and a `worker stop` that finds no row
\* running, knowing no child, reports no error and leaves the workers
\* table, the workers, their events and the jobs as they were.
C26_StopStopsAll ==
    [][/\ StopEnds =>
            /\ \A w \in stop.running :
                  /\ workers'[w].status = "stopped"
                  /\ workers'[w].stopped_at # NoStamp
            /\ \A w \in stop.targets : ~Alive(w)'
       /\ (StopBegin(FALSE) /\ RunningRows = {}) =>
            /\ cli' = Quiet
            /\ workers' = workers /\ wk' = wk /\ jobs' = jobs
            /\ shutdown_event' = shutdown_event /\ stop' = stop]_vars

\* `worker stop` has ended both workers, one of them holding a job, two
\* seconds into the run or later, and their rows are stopped since then
C26_Witness ==
    /\ stop.pc = "idle"
    /\ \A w \in Workers :
          /\ wk[w].pc = "killed"
          /\ workers[w].status = "stopped" /\ workers[w].stopped_at.sec >= StopGrace
    /\ \E w \in Workers : wk[w].job_id # NULL /\ Orphan(w, wk[w].job_id)

\* C24 (as claimed): each UPDATE of a job applies to a row only in the
\* state it expects: the claim's condition holds of a row only if it is
\* pending or failed, dlq_retry's only if it is dead, and the condition of
\* the UPDATE that commits a result only if it is processing, so that the
\* commit is a no-op on a row in any other state.
C24_ConditionalUpdates ==
    \A j \in DOMAIN jobs :
        /\ ClaimGuard(jobs[j]) => jobs[j].state \in {"pending", "failed"}
        /\ DlqGuard(j) => jobs[j].state = "dead"
        /\ CommitGuard(jobs[j]) => jobs[j].state = "processing"

\* C31: a worker that leaves its loop on the shutdown event does so from
\* the top of the loop, and in the step in which it marks its row stopped
\* no job names it in picked_by.
C31_GracefulExitHoldsNothing ==
    [][\A w \in Workers :
          (wk[w].pc # "exited" /\ wk'[w].pc = "exited") =>
              /\ wk[w].pc = "pick" /\ shutdown_event[w]
              /\ workers'[w].status = "stopped"
              /\ \A j \in DOMAIN jobs' : jobs'[j].picked_by # w]_vars

\* a worker that did all the work there was, the other never having
\* started, has left its loop on the event and its row is stopped
C31_Witness ==
    \E w, v \in Workers :
        /\ wk[w].pc = "exited" /\ workers[w].status = "stopped"
        /\ wk[v].pc = "start"
        /\ \E j \in DOMAIN jobs : jobs[j].state \in {"completed", "dead"}

\* the columns no statement sets after the INSERT (id is the key of the row)
FixedColumns == {"command", "max_retries", "priority", "created_at"}

\* C32: in every step every job stays in the table under its id with its
\* command, max_retries, priority and created_at as they were, set_config
\* included; a step changes at most one job; and a job enqueued without
\* max_retries gets the value the configuration holds then.
C32_FixedColumns ==
    [][/\ \A j \in DOMAIN jobs :
            /\ j \in DOMAIN jobs'
            /\ \A f \in FixedColumns : jobs'[j][f] = jobs[j][f]
       /\ Cardinality({j \in DOMAIN jobs : jobs'[j] # jobs[j]}) <= 1
       /\ \A job \in CliJobInputs :
            (job.id \notin DOMAIN jobs /\ job.id \in DOMAIN jobs') =>
                jobs'[job.id].max_retries = get_config.max_retries]_vars

\* a job enqueued under the default max_retries of 3 has failed once and
\* kept its 3 after max_retries was set to 0, under which the other job
\* was enqueued and died
C32_Witness ==
    \E i, j \in DOMAIN jobs :
        /\ jobs[i].max_retries = 3 /\ jobs[i].state = "failed"
        /\ config.max_retries = 0
        /\ jobs[j].max_retries = 0 /\ jobs[j].state = "dead"

\* a timestamp in the form YYYY-MM-DDTHH:MM:SSZ
Canonical(ts) == ts.fmt = "iso" /\ ts.sub = 0

\* C33 (as claimed): every due_at, created_at and updated_at of a job and
\* every heartbeat_at of a worker is in the form YYYY-MM-DDTHH:MM:SSZ, and
\* so the order of two due_at values as strings is the order of their
\* instants.
C33_CanonicalTimestamps ==
    /\ \A j \in DOMAIN jobs :
          /\ Canonical(jobs[j].due_at)
          /\ Canonical(jobs[j].created_at)
          /\ Canonical(jobs[j].updated_at)
          /\ StrLeq(jobs[j].due_at, now_iso)
                <=> Instant(jobs[j].due_at) <= Instant(now_iso)
    /\ \A w \in DOMAIN workers : Canonical(workers[w].heartbeat_at)

\* C34: the output stored with any job is null or at most 10000
\* characters long.
C34_OutputBounded ==
    \A j \in DOMAIN jobs : jobs[j].output.null \/ jobs[j].output.len <= 10000

\* a job whose command printed 13893 characters is completed, and 10000
\* of them are stored
C34_Witness ==
    \E j \in DOMAIN jobs :
        /\ jobs[j].command = "seq 1 3000" /\ jobs[j].state = "completed"
        /\ ~jobs[j].output.null /\ jobs[j].output.len = 10000

====
